---- MODULE Spec2Model ----
(***************************************************************************)
(* A model of the telnet Connection of connection.go: the escaping writer  *)
(* (Write), the raw writer (RawWrite), the decoding reader (Read, read,    *)
(* fill) and the negotiation dispatch (handleNegotiation, writeBytes).     *)
(*                                                                         *)
(* Bytes are naturals 0..255.  A Go slice is a TLA+ sequence; the Go index *)
(* i is the TLA+ index i+1 (see At).  c.buf is stored without its trailing *)
(* zero bytes (buf) together with its length (buflen): a byte of c.buf at  *)
(* or after Len(buf) is 0.  The caller's buffer b of a decode pass is      *)
(* stored as the bytes written to it so far, which are always b[0:lastWrite]*)
(* (and b[0:n] when the pass ends), together with len(b).                  *)
(* The transport is modelled by the bytes the peer has sent and the        *)
(* transport's Read has not yet returned (wire) and by the log of the      *)
(* slices its Write accepted (sent).                                       *)
(***************************************************************************)
EXTENDS Integers, Sequences, FiniteSets, TLC

(***************************************************************************)
(* Wire constants (RFC 854 values, used by connection.go by name).         *)
(***************************************************************************)
IAC == 255
DONT == 254
DO == 253
WONT == 252
WILL == 251
SB == 250
SE == 240

maxReadAttempts == 10

\* make([]byte, 256) in NewConnection
BufSize == 256

(***************************************************************************)
(* Bounds of the model.                                                    *)
(***************************************************************************)
\* total number of bytes the peer puts on the wire
MaxWire == 6
\* longest subnegotiation payload the peer sends
MaxPayload == 1
\* longest input handed to Write
MaxWriteLen == 3
\* number of Write / RawWrite calls in one behaviour
MaxWriteCalls == 1
\* number of transport reads that return an error in one behaviour
MaxReadErrs == 1
\* longest factory list whose construction is followed step by step
MaxFactories == 3
\* number of units the peer sends while a Write runs beside the Reads
MaxUnitsRW == 1

NoErr == "nil"
ReadErrs == {"timeout"}
WriteErr == "epipe"

\* application bytes used by the peer
AppBytes == {65}
\* bytes of a subnegotiation payload
PayloadBytes == {65, 255}
\* bytes of the inputs of Write
WriteBytes == {65, 255}
\* inputs of RawWrite
RawMsgs == {<<255, 251, 1>>}
\* option identifiers the peer negotiates
OptionIds == {0, 1}
\* the factory lists NewConnection is called with (each factory is named by
\* the option code of the handler it creates)
FactoryLists == {<<0, 1>>, <<1, 1>>}
\* len(b) of the Read calls: empty, minimal, and larger than the initial buf
\* (and than any stream the peer sends)
ReadLens == {0, 1, BufSize + 1}
\* the reply write of a pass that fails (0: none)
FailAts == {0, 1}

VARIABLES
  options,         \* the factory list NewConnection was called with
  cpc,             \* "loop" | "reg" | "offer" | "done": position of NewConnection
  ck,              \* number of factories the range loop has taken
  made,            \* history: number of handlers instantiated
  OptionHandlers,  \* option code -> index of the factory whose handler is registered
  offers,          \* log of Offer calls: <<factory index, option code>>
  buf, buflen,     \* c.buf without its trailing zeros, and len(c.buf)
  r, w,            \* buf read and write positions
  iac, cmd, option,
  clientWont, clientDont,
  wire,            \* bytes the peer has sent and the transport has not yet returned
  arrived,         \* history: the units the peer has sent, in order
  nerrs,           \* number of transport reads that returned an error
  chunking,        \* transport reads return "any" number of bytes, "one" byte, or "all" there is
  sent,            \* log of the byte slices the transport accepted from Conn.Write
  calls,           \* log of handler callbacks: <<"Will"|"Do"|"SB", factory index, option, body>>
  appOut,          \* concatenation of the bytes returned by the Read calls so far
  rpc,             \* "idle" | "reading": position of the Read call
  rlen,            \* len(b) of the Read call in progress
  ri, rn, rerr,    \* Read's loop counter and named results
  rdata,           \* b[0:n] as left by the last pass
  rcopied,         \* number of bytes the last pass copied into b
  treads,          \* number of transport reads made by the Read call in progress
  wfailed,         \* history: a reply write has failed
  panicked,        \* the program died on an index/slice bounds panic
  wpc,             \* "idle" | "scan" | "pair" | "tail" | "ret": position of the Write call
  wb, wi, wlast, wn, werr,  \* Write's input b, loop index i, lastWrite and named results
  wfrom,           \* history: Len(sent) when the current Write call started
  wfwd,            \* history: input bytes whose wire form the transport accepted whole
  wcalls           \* number of Write/RawWrite calls made

newVars == <<options, cpc, ck, made>>
connVars == <<OptionHandlers, offers, buf, buflen, r, w, iac, cmd, option, clientWont, clientDont>>
readVars == <<rpc, rlen, ri, rn, rerr, rdata, rcopied, treads, appOut>>
writeVars == <<wpc, wb, wi, wlast, wn, werr, wfrom, wfwd, wcalls>>
envVars == <<wire, arrived, chunking, nerrs>>
vars == <<newVars, connVars, readVars, writeVars, envVars, sent, calls, wfailed, panicked>>

(***************************************************************************)
(* Slices.                                                                 *)
(***************************************************************************)
Min(a, b) == IF a < b THEN a ELSE b

Max(a, b) == IF a < b THEN b ELSE a

\* s[i] of Go, for a buffer stored without its trailing zeros
At(s, i) == IF i < Len(s) THEN s[i + 1] ELSE 0

\* s[lo:hi] of Go (lo <= hi <= len(s) is the caller's obligation)
Slice(s, lo, hi) == [k \in 1..(hi - lo) |-> At(s, lo + k - 1)]

RECURSIVE Trim(_)
Trim(s) ==
  IF s = <<>> \/ s[Len(s)] # 0 THEN s ELSE Trim(SubSeq(s, 1, Len(s) - 1))

\* Go's copy(s[dlo:dhi], s[slo:]) on a buffer s of length L
CopyWithin(s, L, dlo, dhi, slo) ==
  LET cnt == Min(dhi - dlo, L - slo)
  IN Trim([k \in 1..Len(s) |->
             IF k - 1 >= dlo /\ k - 1 < dlo + cnt
             THEN At(s, slo + (k - 1 - dlo))
             ELSE s[k]])

\* Go's copy(s[off:], src) on a buffer s that has room for src
CopyAt(s, off, src) ==
  Trim([k \in 1..Max(Len(s), off + Len(src)) |->
          IF k - 1 >= off /\ k - 1 - off < Len(src)
          THEN src[k - off]
          ELSE At(s, k - 1)])

RECURSIVE Flatten(_)
Flatten(ss) == IF ss = <<>> THEN <<>> ELSE Head(ss) \o Flatten(Tail(ss))

\* the sequences over S of length at most n
SeqsUpTo(S, n) == UNION {[1..k -> S] : k \in 0..n}

IsPrefix(s, t) == Len(s) <= Len(t) /\ SubSeq(t, 1, Len(s)) = s

(***************************************************************************)
(* NewConnection: registers the handler of every factory, in order, and    *)
(* calls its Offer.                                                        *)
(***************************************************************************)
RECURSIVE Register(_, _, _)
Register(opts, k, handlers) ==
  IF k > Len(opts) THEN handlers
  ELSE Register(opts, k + 1,
                [x \in DOMAIN handlers \cup {opts[k]} |->
                   IF x = opts[k] THEN k ELSE handlers[x]])

NewConnection(opts) ==
  [OptionHandlers |-> Register(opts, 1, <<>>),
   offers |-> [k \in 1..Len(opts) |-> <<k, opts[k]>>],
   buf |-> <<>>,
   buflen |-> BufSize]

(***************************************************************************)
(* The decode pass, Connection.read.  A pass state st holds the fields of  *)
(* the Connection (buf, buflen, r, w, iac, cmd, option, clientWont,        *)
(* clientDont, handlers), the locals of read (b, blen, lastWrite,          *)
(* ignoreIAC, n, i), its                                                   *)
(* result (n, err), and what the pass did to the outside: sentNow (the     *)
(* replies the transport accepted), callsNow (handler callbacks), nwrites  *)
(* (transport writes attempted).  failAt names the transport write of this *)
(* pass that fails (0: none).  ctl is "run" while the for loop runs,       *)
(* "break" after the loop is left, "return" after return 0, err and        *)
(* "panic" after a run-time panic (index or slice bounds out of range).    *)
(***************************************************************************)

\* c.Conn.Write(bytes) of writeBytes: the write number failAt fails and
\* transmits nothing, every other one is accepted whole
writeBytes(st, bytes) ==
  IF st.nwrites + 1 = st.failAt
  THEN [st EXCEPT !.nwrites = @ + 1, !.err = WriteErr]
  ELSE [st EXCEPT !.nwrites = @ + 1, !.sentNow = Append(@, bytes)]

Callback(st, kind, body) ==
  [st EXCEPT !.callsNow = Append(@, <<kind, st.handlers[st.option], st.option, body>>)]

handleNegotiation(st) ==
  CASE st.cmd = WILL ->
         IF st.option \in DOMAIN st.handlers
         THEN Callback(st, "Will", <<>>)
         ELSE writeBytes(st, <<IAC, DONT, st.option>>)
    [] st.cmd = WONT -> [st EXCEPT !.clientWont = @ \cup {st.option}]
    [] st.cmd = DO ->
         IF st.option \in DOMAIN st.handlers
         THEN Callback(st, "Do", <<>>)
         ELSE writeBytes(st, <<IAC, WONT, st.option>>)
    [] st.cmd = DONT -> [st EXCEPT !.clientDont = @ \cup {st.option}]
    [] OTHER -> st

\* the closure write(end) of read
write(st, end) ==
  IF st.r = end THEN st
  ELSE IF st.r > end THEN [st EXCEPT !.ctl = "panic"]
  ELSE LET src == Slice(st.buf, st.r, end)
           nn == Min(st.blen - st.lastWrite, Len(src))
       IN [st EXCEPT !.b = @ \o SubSeq(src, 1, nn),
                     !.n = @ + nn,
                     !.lastWrite = @ + nn,
                     !.r = @ + nn]

\* an endIAC that leaves the option as it is
endIACKeepOption(st, i) ==
  [st EXCEPT !.iac = FALSE, !.cmd = 0, !.r = i + 1]

\* the closure endIAC(i) of read
endIAC(st, i) ==
  [st EXCEPT !.iac = FALSE, !.cmd = 0, !.option = 0, !.r = i + 1]

Advance(st) == [st EXCEPT !.i = @ + 1]

\* the second half of the loop body (from ignoreIAC = false on)
Dispatch(st0) ==
  LET st == [st0 EXCEPT !.ignoreIAC = FALSE]
      i == st.i
      ch == At(st.buf, i)
  IN IF st.iac /\ st.cmd = 0
     THEN LET s1 == [st EXCEPT !.cmd = ch]
          IN IF ch = SB
             THEN IF i + 2 >= st.w
                  THEN [s1 EXCEPT !.ctl = "break"]
                  ELSE Advance([s1 EXCEPT !.r = i + 2])
             ELSE Advance(s1)
     ELSE IF st.iac /\ st.option = 0
     THEN LET s1 == [st EXCEPT !.option = ch]
          IN IF s1.cmd # SB
             THEN LET s2 == handleNegotiation(s1)
                  IN IF s2.err # NoErr
                     THEN [s2 EXCEPT !.n = 0, !.ctl = "return"]
                     ELSE Advance(endIAC(s2, i))
             ELSE Advance(s1)
     ELSE IF st.iac /\ st.cmd = SB /\ ch = SE
     THEN IF i = 0
          THEN [st EXCEPT !.ctl = "panic"]
          ELSE IF At(st.buf, i - 1) = IAC
          THEN IF st.option \in DOMAIN st.handlers
               THEN IF st.r > i - 1
                    THEN [st EXCEPT !.ctl = "panic"]
                    ELSE Advance(endIAC(Callback(st, "SB", Slice(st.buf, st.r, i - 1)), i))
               ELSE Advance(endIAC(st, i))
          ELSE Advance(st)
     ELSE Advance(st)

\* one iteration of the for loop of read
Body(st) ==
  LET i == st.i
      ch == At(st.buf, i)
  IN IF ch = IAC /\ ~st.ignoreIAC
     THEN IF st.iac /\ st.cmd = 0
          THEN LET s1 == write(st, i)
               IN IF s1.ctl = "panic" THEN s1
                  ELSE Advance([s1 EXCEPT !.r = @ + 1, !.iac = FALSE])
          ELSE IF st.iac /\ i = 0
          THEN [st EXCEPT !.ctl = "panic"]
          ELSE IF st.iac /\ At(st.buf, i - 1) = IAC
          THEN \* copy(c.buf[:i], c.buf[i+1:]); i--; ignoreIAC = true; continue
               [st EXCEPT !.buf = CopyWithin(st.buf, st.buflen, 0, i, i + 1),
                          !.ignoreIAC = TRUE]
          ELSE IF ~st.iac
          THEN LET s1 == write(st, i)
               IN IF s1.ctl = "panic" THEN s1
                  ELSE Advance([s1 EXCEPT !.iac = TRUE])
          ELSE Dispatch(st)
     ELSE Dispatch(st)

RECURSIVE Loop(_)
Loop(st) ==
  IF st.ctl # "run" THEN st
  ELSE IF st.i < st.w /\ st.lastWrite < st.blen
  THEN Loop(Body(st))
  ELSE [st EXCEPT !.ctl = "break"]

\* the copy of the remaining data that ends read
Remaining(st) ==
  IF st.ctl # "break" THEN st
  ELSE IF st.r > st.w THEN [st EXCEPT !.ctl = "panic"]
  ELSE LET src == Slice(st.buf, st.r, st.w)
           nn == Min(st.blen - st.lastWrite, Len(src))
       IN [st EXCEPT !.b = @ \o SubSeq(src, 1, nn),
                     !.n = @ + nn,
                     !.r = @ + nn]

(***************************************************************************)
(* fill.  FillShift is the compaction and the growth; FillRead is the one  *)
(* Conn.Read into buf[w:], which returned the bytes chunk.                 *)
(***************************************************************************)
\* fill's compaction and growth without the adjustment of w
FillShiftKeepW(c, requestedBytes) ==
  LET c1 == IF c.r > 0
            THEN [c EXCEPT !.buf = CopyWithin(c.buf, c.buflen, 0, c.buflen, c.r),
                           !.r = 0]
            ELSE c
  IN IF c1.buflen < requestedBytes
     THEN [c1 EXCEPT !.buf = Trim(Slice(c1.buf, c1.r, c1.w)),
                     !.buflen = requestedBytes,
                     !.r = 0]
     ELSE c1

FillShift(c, requestedBytes) ==
  LET c1 == IF c.r > 0
            THEN [c EXCEPT !.buf = CopyWithin(c.buf, c.buflen, 0, c.buflen, c.r),
                           !.w = c.w - c.r,
                           !.r = 0]
            ELSE c
  IN IF c1.buflen < requestedBytes
     THEN [c1 EXCEPT !.buf = Trim(Slice(c1.buf, c1.r, c1.w)),
                     !.buflen = requestedBytes,
                     !.w = c1.w - c1.r,
                     !.r = 0]
     ELSE c1

FillRead(c, chunk) ==
  [c EXCEPT !.buf = CopyAt(c.buf, c.w, chunk), !.w = c.w + Len(chunk)]

fill(c, requestedBytes, chunk) == FillRead(FillShift(c, requestedBytes), chunk)

\* room the transport read of the next fill has: len(c.buf[c.w:])
FreeAfterShift(c, requestedBytes) ==
  LET c1 == FillShift(c, requestedBytes) IN c1.buflen - c1.w

(***************************************************************************)
(* read(b): c is the Connection, blen is len(b), chunk and ferr are what   *)
(* the transport read of fill returned, failAt the reply write that fails. *)
(***************************************************************************)
PassStart(c, blen, failAt, ferr) ==
  [buf |-> c.buf, buflen |-> c.buflen, r |-> c.r, w |-> c.w, iac |-> c.iac, cmd |-> c.cmd,
   option |-> c.option, clientWont |-> c.clientWont, clientDont |-> c.clientDont,
   handlers |-> c.handlers,
   b |-> <<>>, blen |-> blen, lastWrite |-> 0, ignoreIAC |-> FALSE, n |-> 0, i |-> c.r,
   err |-> ferr, ctl |-> IF ferr = NoErr THEN "run" ELSE "fillerr",
   sentNow |-> <<>>, callsNow |-> <<>>, nwrites |-> 0, failAt |-> failAt]

read(c, blen, chunk, ferr, failAt) ==
  Remaining(Loop(PassStart(fill(c, blen, chunk), blen, failAt, ferr)))

(***************************************************************************)
(* The peer.  It sends units: an application byte, an escaped marker, a    *)
(* negotiation command, a subnegotiation.                                  *)
(***************************************************************************)
Payloads == SeqsUpTo(PayloadBytes, MaxPayload)

Tokens ==
  [k : {"app"}, c : {0}, x : AppBytes, p : {<<>>}]
    \cup [k : {"esc"}, c : {0}, x : {IAC}, p : {<<>>}]
    \cup [k : {"neg"}, c : {WILL, WONT, DO, DONT}, x : OptionIds, p : {<<>>}]
    \cup [k : {"sb"}, c : {SB}, x : OptionIds, p : Payloads]

Bytes(t) ==
  CASE t.k = "app" -> <<t.x>>
    [] t.k = "esc" -> <<IAC, IAC>>
    [] t.k = "neg" -> <<IAC, t.c, t.x>>
    [] t.k = "sb" -> <<IAC, SB, t.x>> \o t.p \o <<IAC, SE>>

RECURSIVE AllBytes(_)
AllBytes(ts) == IF ts = <<>> THEN <<>> ELSE Bytes(Head(ts)) \o AllBytes(Tail(ts))

(***************************************************************************)
(* The state machine.                                                      *)
(***************************************************************************)
Conn ==
  [buf |-> buf, buflen |-> buflen, r |-> r, w |-> w,
   iac |-> iac, cmd |-> cmd, option |-> option,
   clientWont |-> clientWont, clientDont |-> clientDont, handlers |-> OptionHandlers]

\* the fields NewConnection leaves at their zero value, and the world
\* around a connection nothing was done with
Untouched ==
  /\ r = 0 /\ w = 0
  /\ iac = FALSE /\ cmd = 0 /\ option = 0
  /\ clientWont = {} /\ clientDont = {}
  /\ wire = <<>> /\ arrived = <<>>
  /\ chunking \in {"any", "one", "all"}
  /\ nerrs = 0
  /\ sent = <<>> /\ calls = <<>> /\ appOut = <<>>
  /\ rpc = "idle" /\ rlen = 0 /\ ri = 0 /\ rn = 0 /\ rerr = NoErr /\ rdata = <<>>
  /\ rcopied = 0 /\ treads = 0
  /\ wfailed = FALSE /\ panicked = FALSE
  /\ wpc = "idle" /\ wb = <<>> /\ wi = 0 /\ wlast = 0 /\ wn = 0 /\ werr = NoErr
  /\ wfrom = 0 /\ wfwd = 0 /\ wcalls = 0

\* the state NewConnection returns
Init ==
  /\ options \in FactoryLists
  /\ LET c == NewConnection(options)
     IN /\ OptionHandlers = c.OptionHandlers
        /\ offers = c.offers
        /\ buf = c.buf
        /\ buflen = c.buflen
  /\ cpc = "done" /\ ck = Len(options) /\ made = Len(options)
  /\ Untouched

(***************************************************************************)
(* NewConnection, step by step: the allocation of the Connection, then for *)
(* each factory of the list the instantiation h := o(conn), the            *)
(* registration under h.OptionCode() and the call h.Offer(conn).           *)
(***************************************************************************)
FactoryListsNew == SeqsUpTo(OptionIds, MaxFactories)

\* a registration that keeps the handler an identifier already has
RegisterFirstWins(handlers, code, k) ==
  IF code \in DOMAIN handlers THEN handlers
  ELSE [x \in DOMAIN handlers \cup {code} |-> IF x = code THEN k ELSE handlers[x]]

\* conn.OptionHandlers[h.OptionCode()] = h, for the handler h of factory k
RegisterOne(handlers, code, k) ==
  [x \in DOMAIN handlers \cup {code} |-> IF x = code THEN k ELSE handlers[x]]

\* NewConnection(c, options) has allocated the Connection
InitNew ==
  /\ options \in FactoryListsNew
  /\ OptionHandlers = <<>>
  /\ offers = <<>>
  /\ buf = <<>> /\ buflen = BufSize
  /\ cpc = "loop" /\ ck = 0 /\ made = 0
  /\ Untouched

\* for _, o := range options { h := o(conn)
NewInstantiate ==
  /\ cpc = "loop"
  /\ ck < Len(options)
  /\ ck' = ck + 1
  /\ made' = made + 1
  /\ cpc' = "reg"
  /\ UNCHANGED <<options, connVars, readVars, writeVars, envVars, sent, calls, wfailed, panicked>>

\* conn.OptionHandlers[h.OptionCode()] = h
NewRegister ==
  /\ cpc = "reg"
  /\ OptionHandlers' = RegisterOne(OptionHandlers, options[ck], ck)
  /\ cpc' = "offer"
  /\ UNCHANGED <<options, ck, made, offers, buf, buflen, r, w, iac, cmd, option, clientWont, clientDont>>
  /\ UNCHANGED <<readVars, writeVars, envVars, sent, calls, wfailed, panicked>>

\* h.Offer(conn) }
NewOffer ==
  /\ cpc = "offer"
  /\ offers' = Append(offers, <<ck, options[ck]>>)
  /\ cpc' = "loop"
  /\ UNCHANGED <<options, ck, made, OptionHandlers, buf, buflen, r, w, iac, cmd, option, clientWont, clientDont>>
  /\ UNCHANGED <<readVars, writeVars, envVars, sent, calls, wfailed, panicked>>

\* return conn
NewReturn ==
  /\ cpc = "loop"
  /\ ck = Len(options)
  /\ cpc' = "done"
  /\ UNCHANGED <<options, ck, made, connVars, readVars, writeVars, envVars, sent, calls, wfailed, panicked>>

\* the construction of a connection
NextNew ==
  \/ NewInstantiate
  \/ NewRegister
  \/ NewOffer
  \/ NewReturn

SpecNew == InitNew /\ [][NextNew]_vars

\* the peer sends one more unit; the peer is done sending before the
\* transport returns the first byte (what a read returns of it, and when,
\* is the choice of ReadPass)
Arrive(t) ==
  /\ ~panicked
  /\ rpc = "idle"
  /\ wire = AllBytes(arrived)
  /\ Len(wire) + Len(Bytes(t)) <= MaxWire
  /\ arrived' = Append(arrived, t)
  /\ wire' = wire \o Bytes(t)
  /\ UNCHANGED <<newVars, connVars, readVars, writeVars, chunking, nerrs, sent, calls, wfailed, panicked>>

\* Read(b) is called with len(b) = blen
ReadCall(blen) ==
  /\ ~panicked
  /\ rpc = "idle"
  /\ rpc' = "reading"
  /\ rlen' = blen
  /\ ri' = 0 /\ rn' = 0 /\ rerr' = NoErr /\ rdata' = <<>>
  /\ rcopied' = 0 /\ treads' = 0
  /\ UNCHANGED <<newVars, connVars, writeVars, envVars, appOut, sent, calls, wfailed, panicked>>

\* Read's loop without the test of len(b)
ReadLoopCondNoLen == ri < maxReadAttempts /\ rn = 0

\* the condition of Read's for loop
ReadLoopCond == ri < maxReadAttempts /\ rn = 0 /\ rlen > 0

\* the numbers of bytes one transport read may return: at least one when
\* the peer's bytes are there and the slice has room, none otherwise
ChunkSizes(avail, free) ==
  CASE chunking = "one" -> {Min(1, Min(avail, free))}
    [] chunking = "all" -> {Min(avail, free)}
    [] OTHER -> Min(1, Min(avail, free))..Min(avail, free)

\* one iteration of Read's loop: n, err = c.read(b)
ReadPass ==
  /\ ~panicked
  /\ rpc = "reading"
  /\ ReadLoopCond
  /\ \E k \in ChunkSizes(Len(wire), FreeAfterShift(Conn, rlen)),
        ferr \in {NoErr} \cup (IF nerrs < MaxReadErrs THEN ReadErrs ELSE {}),
        failAt \in FailAts :
       \E st \in {read(Conn, rlen, SubSeq(wire, 1, k), ferr, failAt)} :
          /\ wire' = SubSeq(wire, k + 1, Len(wire))
          /\ buf' = st.buf /\ buflen' = st.buflen /\ r' = st.r /\ w' = st.w
          /\ iac' = st.iac /\ cmd' = st.cmd /\ option' = st.option
          /\ clientWont' = st.clientWont /\ clientDont' = st.clientDont
          /\ sent' = sent \o st.sentNow
          /\ calls' = calls \o st.callsNow
          /\ wfailed' = (wfailed \/ st.ctl = "return")
          /\ panicked' = (st.ctl = "panic")
          /\ rn' = st.n /\ rerr' = st.err
          /\ rdata' = SubSeq(st.b, 1, st.n)
          /\ rcopied' = Len(st.b)
          /\ ri' = ri + 1
          \* the one Conn.Read of fill, which returned SubSeq(wire, 1, k)
          /\ treads' = treads + 1
          /\ nerrs' = IF ferr = NoErr THEN nerrs ELSE nerrs + 1
  /\ UNCHANGED <<newVars, OptionHandlers, offers, rpc, rlen, appOut, arrived, chunking, writeVars>>

\* Read returns (n, err) with b[0:n] = rdata
ReadReturn ==
  /\ ~panicked
  /\ rpc = "reading"
  /\ ~ReadLoopCond
  /\ appOut' = appOut \o rdata
  /\ rpc' = "idle"
  /\ rlen' = 0 /\ ri' = 0 /\ rn' = 0 /\ rerr' = NoErr /\ rdata' = <<>>
  /\ rcopied' = 0 /\ treads' = 0
  /\ UNCHANGED <<newVars, connVars, writeVars, envVars, sent, calls, wfailed, panicked>>

(***************************************************************************)
(* Write(b), one action per step between two writes on the transport.      *)
(* Conn.Write(p) either accepts p whole, or fails having accepted nn < Len(p)*)
(* bytes.                                                                  *)
(***************************************************************************)
\* Write(b) is called
WriteCall(b) ==
  /\ ~panicked
  /\ wpc = "idle"
  /\ wcalls < MaxWriteCalls
  /\ wcalls' = wcalls + 1
  /\ wpc' = "scan"
  /\ wb' = b
  /\ wi' = 0 /\ wlast' = 0 /\ wn' = 0 /\ werr' = NoErr
  /\ wfrom' = Len(sent)
  /\ wfwd' = 0
  /\ UNCHANGED <<newVars, connVars, readVars, envVars, sent, calls, wfailed, panicked>>

\* what the transport logs of a write of p of which it accepted nn bytes
Accept(p, nn) == IF nn > 0 THEN Append(sent, SubSeq(p, 1, nn)) ELSE sent

\* the outcomes (nn, err) of Conn.Write(p)
WriteOutcomes(p) ==
  {<<Len(p), NoErr>>} \cup {<<nn, WriteErr>> : nn \in 0..(Len(p) - 1)}

\* the head of the range loop at index i, up to the write of b[lastWrite:i]
WriteScan ==
  /\ ~panicked
  /\ wpc = "scan"
  /\ IF wi >= Len(wb)
     THEN /\ wpc' = "tail"
          /\ UNCHANGED <<wi, wn, werr, wfwd, sent>>
     ELSE IF wb[wi + 1] # IAC
     THEN /\ wi' = wi + 1
          /\ UNCHANGED <<wpc, wn, werr, wfwd, sent>>
     ELSE IF wlast < wi - 1
     THEN \E o \in WriteOutcomes(Slice(wb, wlast, wi)) :
            /\ sent' = Accept(Slice(wb, wlast, wi), o[1])
            /\ wn' = wn + o[1]
            /\ werr' = o[2]
            /\ wfwd' = IF o[2] = NoErr THEN wfwd + (wi - wlast) ELSE wfwd
            /\ wpc' = IF o[2] # NoErr THEN "ret" ELSE "pair"
            /\ UNCHANGED wi
     ELSE /\ wpc' = "pair"
          /\ UNCHANGED <<wi, wn, werr, wfwd, sent>>
  /\ UNCHANGED <<wb, wlast, wfrom, wcalls>>
  /\ UNCHANGED <<newVars, connVars, readVars, envVars, calls, wfailed, panicked>>

\* the pair written as two transport writes of one byte each
WritePairSplit ==
  /\ ~panicked
  /\ wpc = "pair"
  /\ \E o \in WriteOutcomes(<<IAC>>) :
       /\ sent' = Accept(<<IAC>>, o[1])
       /\ wn' = wn + o[1]
       /\ werr' = o[2]
       /\ IF wlast # wi + 1
          THEN /\ wlast' = wi + 1
               /\ wpc' = IF o[2] # NoErr THEN "ret" ELSE "pair"
               /\ UNCHANGED <<wi, wfwd>>
          ELSE /\ wpc' = IF o[2] # NoErr THEN "ret" ELSE "scan"
               /\ wi' = IF o[2] # NoErr THEN wi ELSE wi + 1
               /\ wfwd' = IF o[2] = NoErr THEN wfwd + 1 ELSE wfwd
               /\ UNCHANGED wlast
  /\ UNCHANGED <<wb, wfrom, wcalls>>
  /\ UNCHANGED <<newVars, connVars, readVars, envVars, calls, wfailed, panicked>>

\* lastWrite = i + 1 and the write of the pair IAC IAC
WritePair ==
  /\ ~panicked
  /\ wpc = "pair"
  /\ wlast' = wi + 1
  /\ \E o \in WriteOutcomes(<<IAC, IAC>>) :
       /\ sent' = Accept(<<IAC, IAC>>, o[1])
       /\ wn' = wn + o[1]
       /\ werr' = o[2]
       /\ wfwd' = IF o[2] = NoErr THEN wfwd + 1 ELSE wfwd
       /\ wpc' = IF o[2] # NoErr THEN "ret" ELSE "scan"
       /\ wi' = IF o[2] # NoErr THEN wi ELSE wi + 1
  /\ UNCHANGED <<wb, wfrom, wcalls>>
  /\ UNCHANGED <<newVars, connVars, readVars, envVars, calls, wfailed, panicked>>

\* the write of b[lastWrite:] after the loop
WriteTail ==
  /\ ~panicked
  /\ wpc = "tail"
  /\ wpc' = "ret"
  /\ IF wlast < Len(wb)
     THEN \E o \in WriteOutcomes(Slice(wb, wlast, Len(wb))) :
            /\ sent' = Accept(Slice(wb, wlast, Len(wb)), o[1])
            /\ wn' = wn + o[1]
            /\ werr' = o[2]
            /\ wfwd' = IF o[2] = NoErr THEN wfwd + (Len(wb) - wlast) ELSE wfwd
     ELSE UNCHANGED <<wn, werr, wfwd, sent>>
  /\ UNCHANGED <<wb, wi, wlast, wfrom, wcalls>>
  /\ UNCHANGED <<newVars, connVars, readVars, envVars, calls, wfailed, panicked>>

\* Write returns (n, err) = (wn, werr)
WriteReturn ==
  /\ ~panicked
  /\ wpc = "ret"
  /\ wpc' = "idle"
  /\ UNCHANGED <<wb, wi, wlast, wn, werr, wfrom, wfwd, wcalls>>
  /\ UNCHANGED <<newVars, connVars, readVars, envVars, sent, calls, wfailed, panicked>>

\* RawWrite(p): c.Conn.Write(p)
RawWrite(p) ==
  /\ ~panicked
  /\ wpc = "idle"
  /\ wcalls < MaxWriteCalls
  /\ wcalls' = wcalls + 1
  /\ \E o \in WriteOutcomes(p) : sent' = Accept(p, o[1])
  /\ UNCHANGED <<wpc, wb, wi, wlast, wn, werr, wfrom, wfwd>>
  /\ UNCHANGED <<newVars, connVars, readVars, envVars, calls, wfailed, panicked>>

WriteInputs == UNION {[1..k -> WriteBytes] : k \in 0..MaxWriteLen}

\* the decoding side: the peer sends, the caller reads
Next ==
  \/ \E t \in Tokens : Arrive(t)
  \/ \E blen \in ReadLens : ReadCall(blen)
  \/ ReadPass
  \/ ReadReturn

Spec == Init /\ [][Next]_vars

\* the encoding side: the caller writes
NextWrite ==
  \/ \E b \in WriteInputs : WriteCall(b)
  \/ WriteScan
  \/ WritePair
  \/ WriteTail
  \/ WriteReturn
  \/ \E p \in RawMsgs : RawWrite(p)

SpecWrite == Init /\ [][NextWrite]_vars

\* the units the peer sends while a Write runs beside the Reads
TokensRW == {t \in Tokens : t.k \in {"app", "neg"}}

InitRW == Init /\ chunking = "all"

\* both sides: a Write or RawWrite call runs while the peer sends and the
\* caller reads, their steps interleaved in every order
NextRW ==
  \/ \E t \in TokensRW : Len(arrived) < MaxUnitsRW /\ Arrive(t)
  \/ \E blen \in ReadLens : ReadCall(blen)
  \/ ReadPass
  \/ ReadReturn
  \/ \E b \in WriteInputs : WriteCall(b)
  \/ WriteScan
  \/ WritePair
  \/ WriteTail
  \/ WriteReturn
  \/ \E p \in RawMsgs : RawWrite(p)

SpecRW == InitRW /\ [][NextRW]_vars

(***************************************************************************)
(* What the peer's stream means, unit by unit: the application bytes it    *)
(* carries, the handler callbacks and the replies it calls for.            *)
(***************************************************************************)
AppOf(t) ==
  CASE t.k = "app" -> <<t.x>>
    [] t.k = "esc" -> <<IAC>>
    [] OTHER -> <<>>

CallOf(t, handlers) ==
  IF t.x \notin DOMAIN handlers THEN <<>>
  ELSE CASE t.k = "neg" /\ t.c = WILL -> << <<"Will", handlers[t.x], t.x, <<>> >> >>
         [] t.k = "neg" /\ t.c = DO -> << <<"Do", handlers[t.x], t.x, <<>> >> >>
         [] t.k = "sb" -> << <<"SB", handlers[t.x], t.x, t.p>> >>
         [] OTHER -> <<>>

ReplyOf(t, handlers) ==
  IF t.x \in DOMAIN handlers THEN <<>>
  ELSE CASE t.k = "neg" /\ t.c = WILL -> << <<IAC, DONT, t.x>> >>
         [] t.k = "neg" /\ t.c = DO -> << <<IAC, WONT, t.x>> >>
         [] OTHER -> <<>>

RECURSIVE ExpectedApp(_)
ExpectedApp(ts) == IF ts = <<>> THEN <<>> ELSE AppOf(Head(ts)) \o ExpectedApp(Tail(ts))

RECURSIVE ExpectedCalls(_, _)
ExpectedCalls(ts, handlers) ==
  IF ts = <<>> THEN <<>>
  ELSE CallOf(Head(ts), handlers) \o ExpectedCalls(Tail(ts), handlers)

RECURSIVE ExpectedReplies(_, _)
ExpectedReplies(ts, handlers) ==
  IF ts = <<>> THEN <<>>
  ELSE ReplyOf(Head(ts), handlers) \o ExpectedReplies(Tail(ts), handlers)

Refused(ts, c) == {ts[j].x : j \in {j \in DOMAIN ts : ts[j].k = "neg" /\ ts[j].c = c}}

IsApp(t) == t.k = "app"
IsEsc(t) == t.k = "esc"
IsNeg(t) == t.k = "neg"
IsDefaulted(t) == t.k = "neg" /\ t.c \in {WILL, DO} /\ t.x \notin DOMAIN OptionHandlers
IsRefusal(t) == t.k = "neg" /\ t.c \in {WONT, DONT}
IsRegisteredSB(t) == t.k = "sb" /\ t.x \in DOMAIN OptionHandlers

\* every byte the peer sent has been returned by the transport and consumed,
\* and no Read call is running
Quiescent == ~panicked /\ rpc = "idle" /\ wire = <<>> /\ r = w

\* the application bytes, callbacks and replies so far are what the stream
\* calls for, up to the point the decoder has reached
OutputsInOrder ==
  /\ ~panicked
  /\ IsPrefix(appOut, ExpectedApp(arrived))
  /\ IsPrefix(calls, ExpectedCalls(arrived, OptionHandlers))
  /\ IsPrefix(sent, ExpectedReplies(arrived, OptionHandlers))

\* ... and are all of it once the stream is consumed
OutputsComplete ==
  /\ appOut = ExpectedApp(arrived)
  /\ calls = ExpectedCalls(arrived, OptionHandlers)
  /\ sent = ExpectedReplies(arrived, OptionHandlers)

(***************************************************************************)
(* The writer's side: the slices the current Write call got accepted, the  *)
(* escaped form of its input, and the decoding of a stream by one Read on  *)
(* a new connection whose transport returns the stream in one read.        *)
(***************************************************************************)
Written == Flatten(SubSeq(sent, wfrom + 1, Len(sent)))

RECURSIVE Escape(_)
Escape(b) ==
  IF b = <<>> THEN <<>>
  ELSE (IF Head(b) = IAC THEN <<IAC, IAC>> ELSE <<Head(b)>>) \o Escape(Tail(b))

FreshConn ==
  [buf |-> <<>>, buflen |-> BufSize, r |-> 0, w |-> 0,
   iac |-> FALSE, cmd |-> 0, option |-> 0,
   clientWont |-> {}, clientDont |-> {}, handlers |-> OptionHandlers]

DecodeAtOnce(stream) == read(FreshConn, BufSize, stream, NoErr, 0)

WriteDone == wpc = "ret"

(***************************************************************************)
(* C1.  Round trip: the wire bytes of a Write(D) none of whose transport   *)
(* writes failed, fed to Read on a connection in its initial parser state, *)
(* decode to exactly D, with no handler invoked and no reply written.      *)
(***************************************************************************)
C1_RoundTrip ==
  (WriteDone /\ werr = NoErr) =>
    \A st \in {DecodeAtOnce(Written)} :
      /\ st.ctl = "break"
      /\ st.b = wb
      /\ st.n = Len(wb)
      /\ st.callsNow = <<>>
      /\ st.sentNow = <<>>

(***************************************************************************)
(* C2.  Write wire format: when no transport write fails, the slices Write *)
(* passes to the transport, concatenated, are the input with every 0xFF    *)
(* doubled and every other byte once, in order.                            *)
(***************************************************************************)
C2_WireFormat ==
  (WriteDone /\ werr = NoErr) => Written = Escape(wb)

(***************************************************************************)
(* C3.  Write's count n is a count of input bytes: 0 <= n <= len(b);       *)
(* n = len(b) when no transport write fails; when one fails, n is the      *)
(* number of input bytes whose wire form was forwarded whole before it (a  *)
(* doubled marker counts once).                                            *)
(***************************************************************************)
C3_CountOfInputBytes ==
  WriteDone =>
    /\ 0 <= wn /\ wn <= Len(wb)
    /\ werr = NoErr => wn = Len(wb)
    /\ werr # NoErr => wn = wfwd

(***************************************************************************)
(* C4.  Doubled marker: in a stream of application bytes and doubled       *)
(* markers, every pair 0xFF 0xFF decodes to one literal 0xFF at its place  *)
(* in the application output, no handler is invoked, no reply is written,  *)
(* and once the stream is consumed the parser is outside a sequence.       *)
(***************************************************************************)
C4_DoubledMarker ==
  (\A j \in DOMAIN arrived : IsApp(arrived[j]) \/ IsEsc(arrived[j])) =>
    /\ ~panicked
    /\ IsPrefix(appOut, ExpectedApp(arrived))
    /\ calls = <<>>
    /\ sent = <<>>
    /\ Quiescent => (appOut = ExpectedApp(arrived) /\ ~iac)

(***************************************************************************)
(* C5.  Negotiation default: in a stream of application bytes and WILL x / *)
(* DO x commands for unregistered x, and with no reply write failing, the  *)
(* connection writes IAC DONT x for each WILL x and IAC WONT x for each    *)
(* DO x, once each and in order, invokes no handler, and delivers none of  *)
(* the command bytes as application data.                                  *)
(***************************************************************************)
C5_NegotiationDefault ==
  ((\A j \in DOMAIN arrived : IsApp(arrived[j]) \/ IsDefaulted(arrived[j])) /\ ~wfailed) =>
    /\ OutputsInOrder
    /\ calls = <<>>
    /\ Quiescent => OutputsComplete

\* the refusal sets, the transport and the output in a stream of application
\* bytes and WONT / DONT commands
C6_RefusalState ==
  (\A j \in DOMAIN arrived : IsApp(arrived[j]) \/ IsRefusal(arrived[j])) =>
    /\ ~panicked
    /\ IsPrefix(appOut, ExpectedApp(arrived))
    /\ sent = <<>>
    /\ calls = <<>>
    /\ clientWont \subseteq Refused(arrived, WONT)
    /\ clientDont \subseteq Refused(arrived, DONT)
    /\ Quiescent => /\ appOut = ExpectedApp(arrived)
                    /\ clientWont = Refused(arrived, WONT)
                    /\ clientDont = Refused(arrived, DONT)

(***************************************************************************)
(* C6.  Refusal bookkeeping: in a stream of application bytes and WONT x / *)
(* DONT x commands (x registered or not), each WONT x puts x in clientWont *)
(* and each DONT x puts x in clientDont and nothing else gets there;       *)
(* nothing is written to the transport, no handler is invoked, no command  *)
(* byte is delivered as application data; and no identifier ever leaves    *)
(* either set.                                                             *)
(***************************************************************************)
C6_RefusalBookkeeping ==
  /\ []C6_RefusalState
  /\ [][clientWont \subseteq clientWont' /\ clientDont \subseteq clientDont']_vars

(***************************************************************************)
(* C7.  Subnegotiation framing: in a stream of application bytes and       *)
(* subnegotiations IAC SB x P IAC SE for registered x (0 included; P may   *)
(* be empty and may hold 0xFF), each subnegotiation invokes x's HandleSB   *)
(* once with body P, and none of its bytes is delivered as application     *)
(* data.                                                                   *)
(***************************************************************************)
C7_SubnegotiationFraming ==
  (\A j \in DOMAIN arrived : IsApp(arrived[j]) \/ IsRegisteredSB(arrived[j])) =>
    /\ OutputsInOrder
    /\ sent = <<>>
    /\ Quiescent => OutputsComplete

(***************************************************************************)
(* C8.  Split delivery: a stream of application bytes and negotiation      *)
(* commands, read through a transport that returns one byte per read (and  *)
(* no error), yields the handler invocations, the replies and the          *)
(* application output that one Read yields when the transport returns the  *)
(* stream in one read.                                                     *)
(***************************************************************************)
C8_SplitDelivery ==
  (/\ chunking = "one"
   /\ nerrs = 0
   /\ \A j \in DOMAIN arrived : IsApp(arrived[j]) \/ IsNeg(arrived[j])
   /\ ~wfailed
   /\ Quiescent) =>
    \A st \in {DecodeAtOnce(AllBytes(arrived))} :
      /\ appOut = st.b
      /\ calls = st.callsNow
      /\ sent = st.sentNow

(***************************************************************************)
(* C9.  No loss or duplication across Read calls: for a stream of          *)
(* application bytes and negotiation commands and any caller buffer sizes  *)
(* (here with every transport read returning all the bytes there are), the *)
(* bytes that did not fit in the caller's buffer are delivered by later    *)
(* Reads, in order, as application data: none is dropped, repeated, or     *)
(* taken for a command or option byte.                                     *)
(***************************************************************************)
C9_NoLossAcrossReads ==
  (/\ chunking = "all"
   /\ \A j \in DOMAIN arrived : IsApp(arrived[j]) \/ IsNeg(arrived[j])
   /\ ~wfailed) =>
    /\ OutputsInOrder
    /\ Quiescent => OutputsComplete

(***************************************************************************)
(* C10.  Read stops on a transport error: once a decode pass of a Read     *)
(* call got an error from the transport read, the call makes no further    *)
(* pass: its next step is to return, with that error.                      *)
(***************************************************************************)
C10_StopsOnReadError ==
  [][(rpc = "reading" /\ rerr \in ReadErrs) => (rpc' = "idle")]_vars

(***************************************************************************)
(* C11.  Negotiation-fallback write error: when the write of the reply to  *)
(* a WILL or DO of an unregistered option fails, the pass returns zero     *)
(* bytes with that error, and the Read call makes no further pass: its     *)
(* next step is to return, with that error.                                *)
(***************************************************************************)
C11_AbortsOnReplyError ==
  /\ [](rerr = WriteErr => rn = 0)
  /\ [][(rpc = "reading" /\ rerr = WriteErr) => (rpc' = "idle")]_vars

IsDispatched(t) == t.k = "neg" /\ t.c \in {WILL, DO} /\ t.x \in DOMAIN OptionHandlers

\* the callbacks of the units of ts that come before its application byte
\* number napp + 1
RECURSIVE CallsWithin(_, _, _)
CallsWithin(ts, handlers, napp) ==
  IF ts = <<>> \/ Len(AppOf(Head(ts))) > napp THEN <<>>
  ELSE CallOf(Head(ts), handlers)
         \o CallsWithin(Tail(ts), handlers, napp - Len(AppOf(Head(ts))))

(***************************************************************************)
(* C13.  Dispatch to registered handlers: in a stream of application bytes *)
(* and WILL x / DO x commands for registered x, each WILL x invokes x's    *)
(* HandleWill once and each DO x its HandleDo once, in wire order, no      *)
(* other handler is invoked, a command's handler is invoked only after the *)
(* application bytes before it were copied to the caller's buffer, and the *)
(* connection writes no reply.                                             *)
(***************************************************************************)
C13_DispatchToHandlers ==
  (\A j \in DOMAIN arrived : IsApp(arrived[j]) \/ IsDispatched(arrived[j])) =>
    /\ OutputsInOrder
    /\ IsPrefix(calls, CallsWithin(arrived, OptionHandlers, Len(appOut) + rcopied))
    /\ sent = <<>>
    /\ Quiescent => OutputsComplete

\* a subnegotiation of a registered option other than 0 whose payload holds
\* no 0xFF
IsPlainSB(t) ==
  /\ IsRegisteredSB(t)
  /\ t.x # 0
  /\ \A k \in DOMAIN t.p : t.p[k] # IAC

(***************************************************************************)
(* C14.  Subnegotiation split across reads: in a stream of subnegotiations *)
(* IAC SB x P IAC SE (x registered and not 0, P without 0xFF) that the     *)
(* transport returns in any pieces and without error, no pass delivers a   *)
(* framing or body byte as application data, and HandleSB is invoked once  *)
(* per subnegotiation, with the complete P, once its terminator has been   *)
(* read.                                                                   *)
(***************************************************************************)
C14_SplitSubnegotiation ==
  ((\A j \in DOMAIN arrived : IsPlainSB(arrived[j])) /\ nerrs = 0) =>
    /\ ~panicked
    /\ appOut = <<>> /\ rcopied = 0
    /\ IsPrefix(calls, ExpectedCalls(arrived, OptionHandlers))
    /\ Quiescent => calls = ExpectedCalls(arrived, OptionHandlers)

CursorsInRange(c) == 0 <= c.r /\ c.r <= c.w /\ c.w <= c.buflen

\* the unread bytes buf[r:w] of c
Unread(c) == Slice(c.buf, c.r, c.w)

(***************************************************************************)
(* C15.  Buffer cursor invariant: after NewConnection and after every      *)
(* return of Read (and between the passes of a Read), 0 <= r <= w <=       *)
(* len(buf); the compaction and growth of fill keep the unread bytes       *)
(* buf[r:w] as they are, make room for len(b) bytes in all, and the        *)
(* transport read of fill appends what it returned to them.                *)
(***************************************************************************)
C15_CursorInvariant ==
  ~panicked =>
    /\ CursorsInRange(Conn)
    /\ (rpc = "reading" /\ ReadLoopCond) =>
         LET c1 == FillShift(Conn, rlen)
         IN /\ CursorsInRange(c1)
            /\ c1.r = 0
            /\ c1.buflen >= rlen
            /\ Unread(c1) = Unread(Conn)
            /\ \A k \in ChunkSizes(Len(wire), c1.buflen - c1.w) :
                 LET c2 == FillRead(c1, SubSeq(wire, 1, k))
                 IN /\ CursorsInRange(c2)
                    /\ Unread(c2) = Unread(Conn) \o SubSeq(wire, 1, k)

\* a Read call has returned leaving unread bytes behind a consumed prefix,
\* and the next call, with a caller buffer larger than buf, is about to
\* compact and grow the buffer
C15_Witness ==
  ~panicked /\ rpc = "reading" /\ ReadLoopCond /\ 0 < r /\ r < w /\ buflen < rlen

\* the factory of the list opts that comes last among those of identifier x
LastOf(opts, x) ==
  CHOOSE k \in DOMAIN opts :
    opts[k] = x /\ \A j \in DOMAIN opts : opts[j] = x => j <= k

\* the registry after the factories opts: the last handler of each identifier
LastWins(opts) ==
  [x \in {opts[k] : k \in DOMAIN opts} |-> LastOf(opts, x)]

(***************************************************************************)
(* C16.  Construction order: NewConnection takes the factories in list     *)
(* order; the handler of a factory is registered under its OptionCode      *)
(* before its Offer is called, and its Offer is called, once, before the   *)
(* next factory is instantiated; when NewConnection returns every          *)
(* handler's Offer has been called exactly once, in list order, and the    *)
(* registry holds, for each identifier, the handler of the last factory    *)
(* with that identifier.                                                   *)
(***************************************************************************)
C16_ConstructionOrder ==
  /\ made = ck
  /\ Len(offers) <= made /\ made <= Len(offers) + 1
  /\ offers = [k \in 1..Len(offers) |-> <<k, options[k]>>]
  /\ cpc = "reg" => Len(offers) = ck - 1
  /\ cpc = "offer" =>
       /\ Len(offers) = ck - 1
       /\ options[ck] \in DOMAIN OptionHandlers
       /\ OptionHandlers[options[ck]] = ck
  /\ cpc = "loop" =>
       /\ Len(offers) = ck
       /\ OptionHandlers = LastWins(SubSeq(options, 1, ck))
  /\ cpc = "done" =>
       /\ Len(offers) = Len(options)
       /\ OptionHandlers = LastWins(options)
       /\ OptionHandlers = NewConnection(options).OptionHandlers
       /\ offers = NewConnection(options).offers

\* NewConnection has returned for a list of MaxFactories factories in which
\* an identifier occurs twice
C16_Witness ==
  /\ cpc = "done"
  /\ Len(options) = MaxFactories
  /\ Len(offers) = MaxFactories
  /\ \E j, k \in DOMAIN options : j < k /\ options[j] = options[k]

\* a step of Write or RawWrite
WriterStep == wpc' # wpc \/ wi' # wi \/ wlast' # wlast \/ wcalls' # wcalls

\* a negotiation reply of the connection
IsReply(p) == Len(p) = 3 /\ p[1] = IAC /\ p[2] \in {DONT, WONT}

\* among the transport writes since the Write call in progress began, no
\* reply lies between two writes of one marker byte each
PairsUnbroken ==
  wpc # "idle" =>
    \A j \in (wfrom + 1)..(Len(sent) - 2) :
      ~(sent[j] = <<IAC>> /\ IsReply(sent[j + 1]) /\ sent[j + 2] = <<IAC>>)

(***************************************************************************)
(* C17.  Writer independence under interleaving: every step of Write and   *)
(* of RawWrite leaves buf, r, w, iac, cmd, option, clientWont, clientDont  *)
(* and OptionHandlers unchanged, and with them everything a Read call in   *)
(* progress has computed or will read (its results so far, the handler     *)
(* invocations, the bytes on the wire); and under every interleaving of a  *)
(* Write with the passes of the Reads, no reply written by a pass lies     *)
(* between the two bytes of a doubled marker.                              *)
(***************************************************************************)
C17_WriterIndependence ==
  /\ []PairsUnbroken
  /\ [][WriterStep =>
          UNCHANGED <<connVars, readVars, envVars, calls, wfailed, panicked>>]_vars

\* a pass of a Read has written its reply between two doubled markers of
\* one Write call
C17_Witness ==
  /\ wpc # "idle"
  /\ Len(sent) >= wfrom + 3
  /\ sent[wfrom + 1] = <<IAC, IAC>>
  /\ IsReply(sent[wfrom + 2])
  /\ sent[wfrom + 3] = <<IAC, IAC>>

(***************************************************************************)
(* C18.  No out-of-range access while decoding: for every stream, every    *)
(* transport chunking and every sequence of Read calls, no pass evaluates  *)
(* buf[i-1] with i = 0 nor forms a slice buf[r:end] with r > end: the      *)
(* program never dies on an index or slice bounds panic.                   *)
(***************************************************************************)
C18_NoOutOfRange == ~panicked

(***************************************************************************)
(* C19.  Returned count matches consumption: the count n a decode pass     *)
(* returns is the number of bytes the pass copied into the caller's        *)
(* buffer (and took from buf as application data), and n <= len(b); a pass *)
(* that returns 0 with an error has copied and consumed no application     *)
(* byte.                                                                   *)
(***************************************************************************)
C19_CountMatchesConsumption ==
  (rpc = "reading" /\ ~panicked) =>
    /\ rn = rcopied
    /\ rn <= rlen
    /\ (rn = 0 /\ rerr # NoErr) => rcopied = 0

ParserCleared(st) == ~st.iac /\ st.cmd = 0 /\ st.option = 0

\* in the run of the for loop from st on, every iteration that completes a
\* command (it invoked a handler, wrote a reply or recorded a refusal, and
\* did not return) leaves the parser state cleared and r and i at the byte
\* after the one it scanned
RECURSIVE ResetsAfterCompletion(_)
ResetsAfterCompletion(st) ==
  IF st.ctl # "run" \/ ~(st.i < st.w /\ st.lastWrite < st.blen) THEN TRUE
  ELSE \A s1 \in {Body(st)} :
         LET completed ==
               /\ s1.ctl = "run"
               /\ \/ s1.callsNow # st.callsNow
                  \/ s1.sentNow # st.sentNow
                  \/ s1.clientWont # st.clientWont
                  \/ s1.clientDont # st.clientDont
         IN /\ completed => (ParserCleared(s1) /\ s1.r = st.i + 1 /\ s1.i = st.i + 1)
            /\ ResetsAfterCompletion(s1)

(***************************************************************************)
(* C20.  Parser state reset: whenever the parser is outside a sequence     *)
(* (iac = false), at Read's returns and between its passes, cmd = 0 and    *)
(* option = 0; in every pass, the iteration that completes a negotiation   *)
(* command or a subnegotiation leaves iac, cmd and option cleared and      *)
(* scanning at the next byte; and a stream of complete commands,           *)
(* subnegotiations and application bytes decoded by one pass leaves the    *)
(* parser cleared with every byte consumed.                                *)
(***************************************************************************)
C20_ParserReset ==
  /\ (~panicked /\ ~iac) => (cmd = 0 /\ option = 0)
  /\ (~panicked /\ rpc = "reading" /\ ReadLoopCond) =>
       \A k \in ChunkSizes(Len(wire), FreeAfterShift(Conn, rlen)) :
         ResetsAfterCompletion(
           PassStart(fill(Conn, rlen, SubSeq(wire, 1, k)), rlen, 0, NoErr))
  /\ (\A j \in DOMAIN arrived : ~IsEsc(arrived[j])) =>
       \A st \in {DecodeAtOnce(AllBytes(arrived))} :
         /\ st.ctl = "break"
         /\ ParserCleared(st)
         /\ st.r = st.w /\ st.w = Len(AllBytes(arrived))

\* a pass has completed a command for a registered option and gone on to
\* deliver the application byte after it
C20_Witness ==
  /\ ~panicked /\ rpc = "reading" /\ ri = 1
  /\ Len(arrived) = 2 /\ IsDispatched(arrived[1]) /\ IsApp(arrived[2])
  /\ calls = ExpectedCalls(arrived, OptionHandlers)
  /\ rdata = ExpectedApp(arrived)
  /\ ParserCleared(Conn) /\ r = w /\ wire = <<>>

====
